---- MODULE Spec2Model ----
(***************************************************************************)
(* The L2-atomics counting barrier of src/src/fastBarrierBGQ.hh.           *)
(*                                                                         *)
(* Shared state (L2_Barrier_t): start, count.                              *)
(* Per-thread state (L2_BarrierHandle_t): localStart; the encoded          *)
(* fetch-and-increment address localCountPtr is the atomic step            *)
(* L2_BarrierWithSync_Arrive_FetchInc.                                     *)
(* Each thread runs a program, a sequence of calls fixed by the usage      *)
(* pattern; ip is the index of the call it is in (or about to make) and pc *)
(* its position inside that call.  Every access to shared memory is one    *)
(* step.  current and target are the locals of Arrive and WaitAndReset;    *)
(* written logs the values stored to start (b->start = current), in order. *)
(***************************************************************************)
EXTENDS Integers, Sequences, FiniteSets, TLC

VARIABLES start, count, localStart, current, target, written, usage, ip, pc

vars == <<start, count, localStart, current, target, written, usage, ip, pc>>

(* ---------------------------- bounds ---------------------------------- *)
\* threads of the Barrier-only and of the single-round usage (= eventNum there)
NBarrier == 3
\* rounds of the Barrier-only usage
BarrierRounds == 3
\* producers of the producer/consumer usage (= eventNum there)
NProducers == 2
\* rounds of the producer/consumer usage
PCRounds == 2

(* ---------------------------- usage patterns -------------------------- *)
RECURSIVE Times(_, _)
\* the sequence s repeated k times
Times(s, k) == IF k = 0 THEN <<>> ELSE s \o Times(s, k - 1)

RECURSIVE Flatten(_)
\* the concatenation of a sequence of sequences
Flatten(ss) == IF ss = <<>> THEN <<>> ELSE Head(ss) \o Flatten(Tail(ss))

\* Producer: InitInThread (Arrive Reset | Barrier)*
ProducerSeq(r) == <<"InitInThread">> \o Times(<<"Arrive", "Reset">>, r)

\* Consumer: InitInThread (WaitAndReset | Barrier)*
ConsumerSeq(r) == <<"InitInThread">> \o Times(<<"WaitAndReset">>, r)

\* Barrier executed by all t threads
BarrierSeq(r) == <<"InitInThread">> \o Times(<<"Barrier">>, r)

\* a producer that arrives ks[r] times in round r, then resets
SplitSeq(ks) ==
  <<"InitInThread">>
    \o Flatten([r \in 1..Len(ks) |-> Times(<<"Arrive">>, ks[r]) \o <<"Reset">>])

BarrierThreads == 1..NBarrier

\* "barrier": every thread calls Barrier(NBarrier), BarrierRounds times
BarrierUsage == [kind |-> "barrier"]

\* "prodcons": producers 1..n call (Arrive(n); Reset(n)), consumers n+1 and
\* n+2 call WaitAndReset(n), r rounds
ProdConsUsage(n, r) == [kind |-> "prodcons", producers |-> n, rounds |-> r]

\* "once": one round; every thread calls Arrive(NBarrier) once, and the
\* threads in w then call WaitAndReset(NBarrier)
OnceUsage(w) == [kind |-> "once", waiters |-> w]

\* "scenario": threads 0-3 call Arrive(4) in any order, then threads 1 and 3
\* call WaitAndReset(4); a second round repeats the same calls
ScenarioUsage == [kind |-> "scenario"]

ScenarioThreads == 0..3

ScenarioWaiters == {1, 3}

\* "split": producer 1 arrives ks[r] times in round r and producer 2 the
\* remaining n - ks[r] times, each then calls Reset(n); consumer 3 calls
\* WaitAndReset(n) once per round
SplitUsage(n, ks) == [kind |-> "split", eventNum |-> n, split |-> ks]

SplitThreads == 1..3

\* "under": two rounds of eventNum = NBarrier; every thread arrives in round
\* 1, thread 1 does not arrive in round 2; each round a thread in w closes
\* with WaitAndReset, any other with Reset
UnderUsage(w) == [kind |-> "under", waiters |-> w]

\* the calls of thread t in the "under" usage
UnderSeq(t, w) ==
  <<"InitInThread", "Arrive">>
    \o (IF t \in w THEN <<"WaitAndReset">> ELSE <<"Reset">>)
    \o (IF t = 1 THEN <<>> ELSE <<"Arrive">>)
    \o (IF t \in w THEN <<"WaitAndReset">> ELSE <<"Reset">>)

\* the threads of a usage pattern
ThreadsOf(u) ==
  CASE u.kind = "barrier" -> BarrierThreads
    [] u.kind = "under" -> BarrierThreads
    [] u.kind = "once" -> BarrierThreads
    [] u.kind = "prodcons" -> 1..(u.producers + 2)
    [] u.kind = "scenario" -> ScenarioThreads
    [] u.kind = "split" -> SplitThreads

\* the eventNum every call of a usage pattern passes
EventNumOf(u) ==
  CASE u.kind = "barrier" -> NBarrier
    [] u.kind = "under" -> NBarrier
    [] u.kind = "once" -> NBarrier
    [] u.kind = "prodcons" -> u.producers
    [] u.kind = "scenario" -> Cardinality(ScenarioThreads)
    [] u.kind = "split" -> u.eventNum

\* the calls thread t of a usage pattern makes, in order
ProgramOf(u, t) ==
  CASE u.kind = "barrier" -> BarrierSeq(BarrierRounds)
    [] u.kind = "under" -> UnderSeq(t, u.waiters)
    [] u.kind = "once" ->
         <<"InitInThread", "Arrive">>
           \o (IF t \in u.waiters THEN <<"WaitAndReset">> ELSE <<>>)
    [] u.kind = "prodcons" ->
         IF t <= u.producers THEN ProducerSeq(u.rounds) ELSE ConsumerSeq(u.rounds)
    [] u.kind = "scenario" ->
         <<"InitInThread">>
           \o (IF t \in ScenarioWaiters
               THEN <<"Arrive", "WaitAndReset", "Arrive", "WaitAndReset">>
               ELSE <<"Arrive", "Arrive">>)
    [] u.kind = "split" ->
         CASE t = 1 -> SplitSeq(u.split)
           [] t = 2 -> SplitSeq([r \in DOMAIN u.split |-> u.eventNum - u.split[r]])
           [] OTHER -> ConsumerSeq(Len(u.split))

\* the phase of the i-th call of thread t: a call begins only when every call
\* of an earlier phase has returned (0: the pattern orders nothing)
PhaseOf(u, t, i) ==
  CASE u.kind = "scenario" ->
         IF i = 1 THEN 0
         ELSE IF t \in ScenarioWaiters THEN i - 1 ELSE 2 * i - 3
    [] OTHER -> 0

Threads == ThreadsOf(usage)

Program(t) == ProgramOf(usage, t)

Calls(t) == {Program(t)[i] : i \in DOMAIN Program(t)}

Producers == {t \in Threads : "Arrive" \in Calls(t)}

Consumers == {t \in Threads : "WaitAndReset" \in Calls(t)}

Running(t) == ip[t] <= Len(Program(t))

Op(t) == IF Running(t) THEN Program(t)[ip[t]] ELSE "none"

EventNum == EventNumOf(usage)

\* thread t may begin its next call
MayBegin(t) ==
  /\ pc[t] = "entry"
  /\ \A u \in Threads : \A j \in DOMAIN Program(u) :
       PhaseOf(usage, u, j) < PhaseOf(usage, t, ip[t]) => ip[u] > j

\* a handle declared in the parallel region holds an arbitrary value until
\* InitInThread runs
Uninitialised == {0, 1}

(* ------------------------- the code's arithmetic ---------------------- *)
\* variant: the load-increment adds two
LoadIncrement_ByTwo(c) == c + 2

\* the L2 load-increment behind h->localCountPtr: the new value of count
LoadIncrement(c) == c + 1

\* variant: current overshoots the fetched value by two
Current_PlusTwo(fetched) == fetched + 2

\* uint64_t current = count + 1;  (count: the value the load-increment returned)
Current(fetched) == fetched + 1

\* variant: the target is localStart itself
Target_NoAdd(ls, n) == ls

\* uint64_t target = h->localStart + eventNum;
Target(ls, n) == ls + n

\* variant: the value fetched, not the incremented one, is compared
ReachedTarget_PreIncrement(cur, tgt) == cur - 1 = tgt

\* variant: <= instead of ==
ReachedTarget_AtMost(cur, tgt) == cur <= tgt

\* variant: >= instead of ==
ReachedTarget_AtLeast(cur, tgt) == cur >= tgt

\* if (current == target)
ReachedTarget(cur, tgt) == cur = tgt

\* variant: the wait loop never spins
MustSpin_Never(s, tgt) == FALSE

\* variant: the comparison inverted
MustSpin_Inverted(s, tgt) == s > tgt

\* variant: <= instead of <
MustSpin_AtMost(s, tgt) == s <= tgt

\* while (b->start < target) ;
MustSpin(s, tgt) == s < tgt

(* ------------------------- control flow ------------------------------- *)
Return(t) ==
  /\ ip' = [ip EXCEPT ![t] = @ + 1]
  /\ pc' = [pc EXCEPT ![t] = "entry"]

\* variant: Barrier returns after its Arrive, without WaitAndReset
AfterArrive_NoWait(t) == Return(t)

\* L2_BarrierWithSync_Barrier: Arrive, then WaitAndReset
AfterArrive(t) ==
  IF Op(t) = "Barrier"
  THEN pc' = [pc EXCEPT ![t] = "wait"] /\ UNCHANGED ip
  ELSE Return(t)

(* ------------------------- operations --------------------------------- *)
\* b->start = b->count = 0; handles are not yet initialised
L2_BarrierWithSync_Init(u) ==
  /\ start = 0
  /\ count = 0
  /\ written = <<>>
  /\ usage = u
  /\ localStart \in [ThreadsOf(u) -> Uninitialised]
  /\ current = [t \in ThreadsOf(u) |-> 0]
  /\ target = [t \in ThreadsOf(u) |-> 0]
  /\ ip = [t \in ThreadsOf(u) |-> 1]
  /\ pc = [t \in ThreadsOf(u) |-> "entry"]

\* variant: the handle keeps the value it was declared with
L2_BarrierWithSync_InitInThread_NoStore(t) ==
  /\ Op(t) = "InitInThread"
  /\ MayBegin(t)
  /\ Return(t)
  /\ UNCHANGED <<start, count, localStart, current, target, written, usage>>

\* h->localStart = 0;  (localCountPtr is the step Arrive_FetchInc)
L2_BarrierWithSync_InitInThread(t) ==
  /\ Op(t) = "InitInThread"
  /\ MayBegin(t)
  /\ localStart' = [localStart EXCEPT ![t] = 0]
  /\ Return(t)
  /\ UNCHANGED <<start, count, current, target, written, usage>>

\* __lwsync(); count = *(h->localCountPtr); current = count + 1;
L2_BarrierWithSync_Arrive_FetchInc(t) ==
  /\ Op(t) \in {"Arrive", "Barrier"}
  /\ MayBegin(t)
  /\ count' = LoadIncrement(count)
  /\ current' = [current EXCEPT ![t] = Current(count)]
  /\ pc' = [pc EXCEPT ![t] = "test"]
  /\ UNCHANGED <<start, localStart, target, written, usage, ip>>

\* target = h->localStart + eventNum; if (current == target) b->start = current;
L2_BarrierWithSync_Arrive_Publish(t) ==
  /\ pc[t] = "test"
  /\ IF ReachedTarget(current[t], Target(localStart[t], EventNum))
     THEN start' = current[t] /\ written' = Append(written, current[t])
     ELSE UNCHANGED <<start, written>>
  /\ current' = [current EXCEPT ![t] = 0]
  /\ AfterArrive(t)
  /\ UNCHANGED <<count, localStart, target, usage>>

\* target = h->localStart + eventNum; h->localStart = target;
L2_BarrierWithSync_WaitAndReset_Enter(t) ==
  /\ \/ Op(t) = "WaitAndReset" /\ MayBegin(t)
     \/ pc[t] = "wait"
  /\ target' = [target EXCEPT ![t] = Target(localStart[t], EventNum)]
  /\ localStart' = [localStart EXCEPT ![t] = Target(localStart[t], EventNum)]
  /\ pc' = [pc EXCEPT ![t] = "spin"]
  /\ UNCHANGED <<start, count, current, written, usage, ip>>

\* while (b->start < target) ; __isync();  -- the read of start that ends the loop
L2_BarrierWithSync_WaitAndReset_Spin(t) ==
  /\ pc[t] = "spin"
  /\ ~MustSpin(start, target[t])
  /\ target' = [target EXCEPT ![t] = 0]
  /\ Return(t)
  /\ UNCHANGED <<start, count, localStart, current, written, usage>>

\* target = h->localStart + eventNum; h->localStart = target;
L2_BarrierWithSync_Reset(t) ==
  /\ Op(t) = "Reset"
  /\ MayBegin(t)
  /\ localStart' = [localStart EXCEPT ![t] = Target(localStart[t], EventNum)]
  /\ Return(t)
  /\ UNCHANGED <<start, count, current, target, written, usage>>

(* -------------------- positions derived from the state ----------------- *)
RECURSIVE CountOps(_, _, _)
\* number of calls among the first k of program p whose op is in ops
CountOps(p, k, ops) ==
  IF k = 0 THEN 0
  ELSE CountOps(p, k - 1, ops) + (IF p[k] \in ops THEN 1 ELSE 0)

\* fetch-and-increments thread t has performed
Arrivals(t) ==
  CountOps(Program(t), ip[t] - 1, {"Arrive", "Barrier"})
    + (IF Op(t) \in {"Arrive", "Barrier"} /\ pc[t] # "entry" THEN 1 ELSE 0)

\* Arrive calls (alone or inside Barrier) thread t has returned from
ArrivesReturned(t) ==
  CountOps(Program(t), ip[t] - 1, {"Arrive", "Barrier"})
    + (IF pc[t] \in {"wait", "spin"} /\ Op(t) = "Barrier" THEN 1 ELSE 0)

\* Barrier calls thread t has returned from
BarriersDone(t) == CountOps(Program(t), ip[t] - 1, {"Barrier"})

\* WaitAndReset (or Barrier) calls thread t has returned from
WaitsDone(t) == CountOps(Program(t), ip[t] - 1, {"WaitAndReset", "Barrier"})

\* Reset / WaitAndReset / Barrier calls thread t has returned from
RoundsDone(t) == CountOps(Program(t), ip[t] - 1, {"Reset", "WaitAndReset", "Barrier"})

Finished(t) == ~Running(t)

(* ------------------------- scheduling ---------------------------------- *)
\* one step of thread t
ThreadStep(t) ==
  \/ L2_BarrierWithSync_InitInThread(t)
  \/ L2_BarrierWithSync_Arrive_FetchInc(t)
  \/ L2_BarrierWithSync_Arrive_Publish(t)
  \/ L2_BarrierWithSync_Reset(t)
  \/ L2_BarrierWithSync_WaitAndReset_Enter(t)
  \/ L2_BarrierWithSync_WaitAndReset_Spin(t)

\* every thread runs on its own hardware thread: none is starved
Fairness(T) == \A t \in T : WF_vars(ThreadStep(t))

(* ==================== Barrier-only usage =============================== *)
InitBarrier == L2_BarrierWithSync_Init(BarrierUsage)

NextBarrier ==
  \E t \in Threads :
    \/ L2_BarrierWithSync_InitInThread(t)
    \/ L2_BarrierWithSync_Arrive_FetchInc(t)
    \/ L2_BarrierWithSync_Arrive_Publish(t)
    \/ L2_BarrierWithSync_WaitAndReset_Enter(t)
    \/ L2_BarrierWithSync_WaitAndReset_Spin(t)

SpecBarrier == InitBarrier /\ [][NextBarrier]_vars /\ Fairness(BarrierThreads)

(* ==================== single round ===================================== *)
InitOnce == \E w \in SUBSET BarrierThreads : L2_BarrierWithSync_Init(OnceUsage(w))

NextOnce ==
  \E t \in Threads :
    \/ L2_BarrierWithSync_InitInThread(t)
    \/ L2_BarrierWithSync_Arrive_FetchInc(t)
    \/ L2_BarrierWithSync_Arrive_Publish(t)
    \/ L2_BarrierWithSync_WaitAndReset_Enter(t)
    \/ L2_BarrierWithSync_WaitAndReset_Spin(t)

SpecOnce == InitOnce /\ [][NextOnce]_vars /\ Fairness(BarrierThreads)

(* ==================== producer/consumer usage ========================== *)
InitPC == L2_BarrierWithSync_Init(ProdConsUsage(NProducers, PCRounds))

NextPC ==
  \E t \in Threads :
    \/ L2_BarrierWithSync_InitInThread(t)
    \/ L2_BarrierWithSync_Arrive_FetchInc(t)
    \/ L2_BarrierWithSync_Arrive_Publish(t)
    \/ L2_BarrierWithSync_Reset(t)
    \/ L2_BarrierWithSync_WaitAndReset_Enter(t)
    \/ L2_BarrierWithSync_WaitAndReset_Spin(t)

SpecPC == InitPC /\ [][NextPC]_vars /\ Fairness(1..(NProducers + 2))

\* the same usage with one more producer and one more round
InitRace == L2_BarrierWithSync_Init(ProdConsUsage(NProducers + 1, PCRounds + 1))

NextRace ==
  \E t \in Threads :
    \/ L2_BarrierWithSync_InitInThread(t)
    \/ L2_BarrierWithSync_Arrive_FetchInc(t)
    \/ L2_BarrierWithSync_Arrive_Publish(t)
    \/ L2_BarrierWithSync_Reset(t)
    \/ L2_BarrierWithSync_WaitAndReset_Enter(t)
    \/ L2_BarrierWithSync_WaitAndReset_Spin(t)

SpecRace == InitRace /\ [][NextRace]_vars /\ Fairness(1..(NProducers + 3))

(* ==================== the four-thread scenario ========================= *)
InitScenario == L2_BarrierWithSync_Init(ScenarioUsage)

NextScenario ==
  \E t \in Threads :
    \/ L2_BarrierWithSync_InitInThread(t)
    \/ L2_BarrierWithSync_Arrive_FetchInc(t)
    \/ L2_BarrierWithSync_Arrive_Publish(t)
    \/ L2_BarrierWithSync_WaitAndReset_Enter(t)
    \/ L2_BarrierWithSync_WaitAndReset_Spin(t)

SpecScenario == InitScenario /\ [][NextScenario]_vars /\ Fairness(ScenarioThreads)

(* ==================== several arrivals per thread ====================== *)
\* every way to split the NProducers + 1 arrivals of each of PCRounds rounds
\* between the two producers, each arriving at least once per round
InitSplit ==
  \E ks \in [1..PCRounds -> 1..NProducers] :
    L2_BarrierWithSync_Init(SplitUsage(NProducers + 1, ks))

NextSplit ==
  \E t \in Threads :
    \/ L2_BarrierWithSync_InitInThread(t)
    \/ L2_BarrierWithSync_Arrive_FetchInc(t)
    \/ L2_BarrierWithSync_Arrive_Publish(t)
    \/ L2_BarrierWithSync_Reset(t)
    \/ L2_BarrierWithSync_WaitAndReset_Enter(t)
    \/ L2_BarrierWithSync_WaitAndReset_Spin(t)

SpecSplit == InitSplit /\ [][NextSplit]_vars /\ Fairness(SplitThreads)

(* ==================== a round with too few arrivals ==================== *)
InitUnder == \E w \in SUBSET BarrierThreads : L2_BarrierWithSync_Init(UnderUsage(w))

NextUnder ==
  \E t \in Threads :
    \/ L2_BarrierWithSync_InitInThread(t)
    \/ L2_BarrierWithSync_Arrive_FetchInc(t)
    \/ L2_BarrierWithSync_Arrive_Publish(t)
    \/ L2_BarrierWithSync_Reset(t)
    \/ L2_BarrierWithSync_WaitAndReset_Enter(t)
    \/ L2_BarrierWithSync_WaitAndReset_Spin(t)

SpecUnder == InitUnder /\ [][NextUnder]_vars /\ Fairness(BarrierThreads)

(* ==================== claims =========================================== *)
\* C1: in Barrier-only usage no thread has returned from its r-th Barrier
\* call unless every thread has performed the fetch-and-increment of its
\* r-th Arrive.
C1_BarrierHoldsBack ==
  \A t \in Threads : \A u \in Threads : Arrivals(u) >= BarriersDone(t)

C1_Witness ==
  \E t \in Threads : \E u \in Threads :
    /\ BarriersDone(t) = 2
    /\ BarriersDone(u) = 1
    /\ pc[u] = "spin"

\* C2: in producer/consumer usage a consumer has returned from its r-th
\* WaitAndReset only if every producer has performed its r-th Arrive.
C2_ConsumerSeesProducers ==
  \A c \in Consumers : \A p \in Producers : Arrivals(p) >= WaitsDone(c)

\* C3: single round on a fresh barrier, every thread calling Arrive(N) once:
\* every thread that then calls WaitAndReset(N) returns, and its wait can end
\* as soon as start = N is published.
C3_Progress ==
  \A t \in BarrierThreads :
    /\ (Op(t) = "WaitAndReset") ~> (~Running(t))
    /\ [](pc[t] = "spin" /\ start = NBarrier
            => ENABLED L2_BarrierWithSync_WaitAndReset_Spin(t))

C3_Witness ==
  \E t \in Threads :
    /\ t \in usage.waiters
    /\ ~Running(t)
    /\ start = NBarrier
    /\ \E u \in Threads : u \notin usage.waiters

\* C4: in round r the N Arrive(N) calls write start exactly once, to r * N:
\* the writes so far are N, 2N, 3N, ... in this order, none repeated, and
\* once every thread has returned from its r-th Arrive the r-th write is made.
C4_WrittenOncePerRound ==
  /\ \A i \in 1..Len(written) : written[i] = i * NBarrier
  /\ \A r \in 1..BarrierRounds :
       (\A t \in Threads : ArrivesReturned(t) >= r) => Len(written) >= r
  /\ start = Len(written) * NBarrier

C4_Witness ==
  /\ written = <<NBarrier>>
  /\ \A t \in Threads : ArrivesReturned(t) = 1

\* C5: when every thread has made r Reset / WaitAndReset calls, every handle
\* has localStart = r * eventNum and start >= localStart.
C5_AfterRound ==
  \A r \in 0..(PCRounds + 1) :
    (\A t \in Threads : ip[t] > 1 /\ pc[t] # "spin" /\ RoundsDone(t) = r)
      => \A t \in Threads : localStart[t] = r * EventNum /\ start >= localStart[t]

\* the first round of the four-thread scenario: start is written once, to 4,
\* when the four first arrivals are made, and a waiter that has returned once
\* has localStart = 4
C6_Round1 ==
  /\ written \in {<<>>, <<EventNum>>, <<EventNum, 2 * EventNum>>}
  /\ (\A t \in Threads : ArrivesReturned(t) >= 1) => Len(written) >= 1
  /\ \A t \in ScenarioWaiters :
       WaitsDone(t) = 1 /\ pc[t] # "spin" => localStart[t] = EventNum /\ start >= EventNum

\* C6 as stated: round 1 as above, and once the eight arrivals of the two
\* rounds are made, start = 8 (so that both waiters can return).
C6_Scenario ==
  /\ C6_Round1
  /\ (\A t \in Threads : ArrivesReturned(t) = 2) => start = 2 * EventNum

\* C6 amended: round 1 as stated and both waiters return from it; in round 2
\* the thread whose fetch-and-increment returns 8 publishes start = 8 exactly
\* when it is thread 1 or 3, and then both waiters return.
C6_ScenarioAmended ==
  /\ []C6_Round1
  /\ <>(\A t \in ScenarioWaiters : WaitsDone(t) >= 1)
  /\ [][\A t \in ScenarioThreads :
          (pc[t] = "test" /\ pc'[t] # "test" /\ current[t] = 2 * EventNum)
            => (start' = 2 * EventNum <=> t \in ScenarioWaiters)]_vars
  /\ (start = 2 * EventNum) ~> (\A t \in ScenarioThreads : ~Running(t))
  /\ [](start = EventNum /\ (\A t \in ScenarioThreads : ArrivesReturned(t) = 2)
          => \E t \in ScenarioWaiters : pc[t] = "spin" \/ Running(t))

C6_Witness ==
  /\ \A t \in Threads : ~Running(t)
  /\ start = 2 * EventNum

\* arrivals producer t makes in rounds 1..r of the split usage
RECURSIVE SplitArrivals(_, _)
SplitArrivals(t, r) ==
  IF r = 0 THEN 0
  ELSE SplitArrivals(t, r - 1)
         + (IF t = 1 THEN usage.split[r] ELSE EventNum - usage.split[r])

\* C7: whatever the split of a round's eventNum arrivals among the producers,
\* the round completes: once all arrivals of rounds 1..r are made, start has
\* reached r * eventNum.
C7_RoundCompletes ==
  \A r \in 1..Len(usage.split) :
    (\A t \in {1, 2} : ArrivesReturned(t) >= SplitArrivals(t, r))
      => start >= r * EventNum

\* C8: N threads each making R Barrier(N) calls all return from all R calls.
C8_BarrierTerminates == <>(\A t \in BarrierThreads : ~Running(t))

C8_Witness == \A t \in Threads : ~Running(t) /\ BarriersDone(t) = BarrierRounds

\* C9: count >= start in every reachable state.
C9_CountAtLeastStart == count >= start

C9_Witness == start = EventNum /\ count = start + 1

\* C10: no step decreases count or start.
C10_Monotonic == [][count' >= count /\ start' >= start]_vars

\* C11: a WaitAndReset call entered with localStart = k returns only in a
\* state where start >= k + eventNum; and when a round gets fewer than
\* eventNum arrivals (round 2 here: thread 1 does not arrive), start never
\* reaches the round's target and no WaitAndReset call of that round returns.
C11_UndercountStalls ==
  /\ [][\A t \in BarrierThreads :
          pc[t] = "spin" /\ pc'[t] # "spin" => start >= localStart[t]]_vars
  /\ [](start < 2 * NBarrier)
  /\ [](\A t \in BarrierThreads : WaitsDone(t) <= 1)

C11_Witness ==
  /\ count = 2 * NBarrier - 1
  /\ \E t \in Threads : pc[t] = "spin" /\ WaitsDone(t) = 1
  /\ \A t \in Threads : pc[t] = "spin" \/ ~Running(t)

\* the Arrive calls that have passed the equality test and not yet stored
\* to start
PendingWriters ==
  {t \in Threads :
     pc[t] = "test" /\ ReachedTarget(current[t], Target(localStart[t], EventNum))}

\* C12: at no time do two Arrive calls both hold a pending store to start,
\* and no value is stored to start twice.
C12_WritesNeverRace ==
  /\ Cardinality(PendingWriters) <= 1
  /\ \A i, j \in DOMAIN written : written[i] = written[j] => i = j

\* C13: the fetch-and-increment step of an Arrive call adds exactly 1 to
\* count and changes neither start nor any localStart; its second step
\* changes neither count nor any localStart and stores the post-increment
\* value to start exactly when that value equals the caller's localStart +
\* eventNum; and the second step is never held back.
C13_ArriveEffect ==
  /\ [][\A t \in Threads :
          /\ pc[t] = "entry" /\ pc'[t] = "test" =>
                /\ count' = count + 1
                /\ current'[t] = count'
                /\ start' = start
                /\ localStart' = localStart
          /\ pc[t] = "test" /\ pc'[t] # "test" =>
                /\ count' = count
                /\ localStart' = localStart
                /\ start' = IF current[t] = localStart[t] + EventNum
                              THEN current[t] ELSE start]_vars
  /\ [](\A t \in Threads :
          pc[t] = "test" => ENABLED L2_BarrierWithSync_Arrive_Publish(t))

C13_Witness ==
  /\ written # <<>>
  /\ start = written[Len(written)]
  /\ count > start
  /\ \A t \in Threads : pc[t] = "entry"
  /\ \A t \in Producers : ArrivesReturned(t) >= 1

\* C14: a Reset step adds exactly eventNum to the caller's localStart and
\* changes neither start, count nor any other handle's localStart; a thread
\* about to call Reset can always take that step, whatever start and count.
C14_ResetEffect ==
  /\ [][\A t \in Threads :
          Op(t) = "Reset" /\ ip'[t] # ip[t] =>
            /\ localStart'[t] = localStart[t] + EventNum
            /\ \A u \in Threads \ {t} : localStart'[u] = localStart[u]
            /\ start' = start
            /\ count' = count]_vars
  /\ [](\A t \in Threads :
          Op(t) = "Reset" => ENABLED L2_BarrierWithSync_Reset(t))

\* a Reset has returned although its round had not completed
C14_Witness ==
  \E t \in Producers :
    /\ pc[t] = "entry"
    /\ Op(t) = "Arrive"
    /\ localStart[t] = EventNum
    /\ start < localStart[t]
    /\ count < localStart[t]

\* C15: an InitInThread step sets the caller's localStart to 0 and changes
\* neither start, count nor any other handle; with the threads initialising
\* in any order while others already arrive or wait, the single round ends
\* as it does with all handles initialised first: the N-th arrival stores
\* start = N once, every thread returns, waiters with localStart = N and the
\* others with localStart = 0.
C15_IndependentInit ==
  /\ [][\A t \in BarrierThreads :
          Op(t) = "InitInThread" /\ ip'[t] # ip[t] =>
            /\ localStart'[t] = 0
            /\ \A u \in BarrierThreads \ {t} : localStart'[u] = localStart[u]
            /\ start' = start
            /\ count' = count]_vars
  /\ []((\A t \in BarrierThreads : ArrivesReturned(t) = 1) =>
          start = NBarrier /\ count = NBarrier /\ written = <<NBarrier>>)
  /\ <>(\A t \in BarrierThreads :
          /\ ~Running(t)
          /\ localStart[t] = IF t \in usage.waiters THEN NBarrier ELSE 0)

\* a waiter already spins while the last thread, its handle still holding
\* the nonzero value it was declared with, has not called InitInThread
C15_Witness ==
  /\ count = NBarrier - 1
  /\ \E t \in BarrierThreads : pc[t] = "spin"
  /\ \E u \in BarrierThreads : Op(u) = "InitInThread" /\ localStart[u] = 1

\* thread t is making a WaitAndReset call whose target is already <= start
LateWaiter(t) ==
  \/ Op(t) = "WaitAndReset" /\ pc[t] = "entry" /\ localStart[t] + EventNum <= start
  \/ pc[t] = "spin" /\ target[t] <= start

\* C16: a WaitAndReset call whose target is <= start when it is made can
\* return on the spot and stays so until it has returned: no step of another
\* thread puts it back to waiting for a further arrival.
C16_LateWaiterNotBlocked ==
  /\ [][\A t \in Threads :
          LateWaiter(t) => LateWaiter(t)' \/ ip'[t] # ip[t]]_vars
  /\ [](\A t \in Threads :
          pc[t] = "spin" /\ target[t] <= start
            => ENABLED L2_BarrierWithSync_WaitAndReset_Spin(t))

\* C17: with NBarrier threads calling only Barrier(NBarrier), in every state
\* count - start <= NBarrier, start is a multiple of NBarrier, and the
\* localStart of any two initialised handles differ by at most NBarrier.
C17_BoundedSkew ==
  /\ count - start <= NBarrier
  /\ start % NBarrier = 0
  /\ \A t, u \in BarrierThreads :
       ip[t] > 1 /\ ip[u] > 1 => localStart[t] - localStart[u] <= NBarrier

\* C17 (amended): as above, but two handles differ by at most 2 * NBarrier:
\* WaitAndReset advances localStart before it waits, so the last arriver of
\* a round can have entered the next round's wait while the others have not
\* yet entered this round's.
C17_BoundedSkewAmended ==
  /\ count - start <= NBarrier
  /\ start % NBarrier = 0
  /\ \A t, u \in BarrierThreads :
       ip[t] > 1 /\ ip[u] > 1 => localStart[t] - localStart[u] <= 2 * NBarrier

\* the first round's last arriver waits in its second Barrier, two rounds
\* ahead of a handle whose thread is still inside the first round's Arrive
C17_Witness ==
  /\ start = NBarrier
  /\ count = NBarrier + 1
  /\ \E t, u \in BarrierThreads :
       /\ pc[t] = "spin"
       /\ pc[u] = "test"
       /\ ip[u] = 2
       /\ localStart[t] - localStart[u] = 2 * NBarrier

====
